---- MODULE Spec2Model ----
(***************************************************************************)
(* FleetFlow: the SQLite store "fleetflow.db" and the programs that open   *)
(* it: Database/db.py (schema), insert.py (seed script), app.py (Flask     *)
(* routes) and Final.py (Streamlit script with a login session).           *)
(*                                                                         *)
(* The store is one record: which CREATE TABLE made the vehicles table     *)
(* (db.py's or Final.py's: both name the table "vehicles" in the same file *)
(* and both say IF NOT EXISTS, so the first one to run wins), whether the  *)
(* drivers and trips tables exist, and the committed rows of each table.   *)
(* A writer's uncommitted rows live in `work` while it holds SQLite's      *)
(* write lock.                                                             *)
(***************************************************************************)
EXTENDS Integers, Sequences, FiniteSets, TLC

\* Python's None, bound as SQL NULL.
None == "<None>"

\* Largest number of rows the vehicles table may reach in the model.
MaxVehicles == 2

(***************************************************************************)
(* Values bound to an INTEGER column: a Python int, a Python str (a Flask  *)
(* form field) or None.                                                    *)
(***************************************************************************)
IntegerValue(n) == [kind |-> "integer", int |-> n, text |-> ""]
TextValue(s) == [kind |-> "text", int |-> 0, text |-> s]
NullValue == [kind |-> "null", int |-> 0, text |-> ""]

\* The form strings of the model that are well-formed integer literals.
DecimalText == ("0" :> 0) @@ ("100" :> 100)

\* SQLite's INTEGER column affinity: text that is a well-formed integer
\* literal is stored as that integer, any other text is stored as text.
IntegerAffinity(v) ==
    IF v.kind = "text" /\ v.text \in DOMAIN DecimalText
    THEN IntegerValue(DecimalText[v.text])
    ELSE v

(***************************************************************************)
(* The schema.                                                             *)
(***************************************************************************)
EmptyDb ==
    [vschema |-> "none", dt |-> FALSE,
     vehicles |-> <<>>, drivers |-> <<>>, trips |-> <<>>]

\* db.py: CREATE TABLE IF NOT EXISTS vehicles / drivers / trips.
CreateTables(d) ==
    [d EXCEPT !.vschema = IF @ = "none" THEN "db" ELSE @, !.dt = TRUE]

\* Final.py init_db: CREATE TABLE IF NOT EXISTS vehicles (id, name, plate,
\* capacity), with no constraint on any column.
init_db(d) ==
    [d EXCEPT !.vschema = IF @ = "none" THEN "final" ELSE @]

\* INTEGER PRIMARY KEY AUTOINCREMENT: one more than the largest id used.
\* No statement of the repository deletes a row.
RECURSIVE MaxId(_)
MaxId(rows) ==
    IF rows = <<>> THEN 0
    ELSE LET m == MaxId(Tail(rows)) IN
         IF Head(rows).id > m THEN Head(rows).id ELSE m

NextId(rows) == MaxId(rows) + 1

Plates(rows) == {rows[i].plate : i \in DOMAIN rows}
Ids(rows) == {rows[i].id : i \in DOMAIN rows}

Licences(rows) == {rows[i].licence : i \in DOMAIN rows}

\* Tables created without their UNIQUE constraints.
UniqueDropped(stored, value) == TRUE

\* UNIQUE, as db.py declares it for vehicles.license_plate and
\* drivers.license_number: the value is in no stored row's column.
Unique(stored, value) == value \notin stored

\* INSERT INTO vehicles (model_name, license_plate, max_load_kg) VALUES
\* (?, ?, ?) as insert.py and app.py run it: it needs db.py's columns.
InsertVehicleDb(d, name, plate, cap) ==
    IF d.vschema # "db"
    THEN [db |-> d, outcome |-> "OperationalError"]
    ELSE IF name = None \/ plate = None \/ cap.kind = "null"
    THEN [db |-> d, outcome |-> "NotNull"]
    ELSE IF ~Unique(Plates(d.vehicles), plate)
    THEN [db |-> d, outcome |-> "DuplicateKey"]
    ELSE [db |-> [d EXCEPT !.vehicles = Append(@,
                    [id |-> NextId(d.vehicles), name |-> name,
                     plate |-> plate, cap |-> IntegerAffinity(cap),
                     status |-> "available"])],
          outcome |-> "ok"]

\* INSERT INTO vehicles (name, plate, capacity) VALUES (?, ?, ?) as
\* Final.py runs it: it needs Final.py's columns, which carry no
\* constraint and no status column.
InsertVehicleFinal(d, name, plate, cap) ==
    IF d.vschema # "final"
    THEN [db |-> d, outcome |-> "OperationalError"]
    ELSE [db |-> [d EXCEPT !.vehicles = Append(@,
                    [id |-> NextId(d.vehicles), name |-> name,
                     plate |-> plate, cap |-> IntegerAffinity(cap),
                     status |-> None])],
          outcome |-> "ok"]

\* INSERT INTO drivers (name, license_number, license_expiry).
InsertDriver(d, name, licence, expiry) ==
    IF ~d.dt
    THEN [db |-> d, outcome |-> "OperationalError"]
    ELSE IF name = None \/ licence = None \/ expiry = None
    THEN [db |-> d, outcome |-> "NotNull"]
    ELSE IF ~Unique(Licences(d.drivers), licence)
    THEN [db |-> d, outcome |-> "DuplicateKey"]
    ELSE [db |-> [d EXCEPT !.drivers = Append(@,
                    [id |-> NextId(d.drivers), name |-> name,
                     licence |-> licence, expiry |-> expiry])],
          outcome |-> "ok"]

\* INSERT INTO trips (vehicle_id, driver_id, cargo_weight, status) on a
\* connection whose foreign_keys pragma is fk: the two FOREIGN KEY
\* clauses are enforced only when the pragma is ON for that connection.
InsertTrip(d, fk, vehicle_id, driver_id, cargo, status) ==
    IF ~d.dt
    THEN [db |-> d, outcome |-> "OperationalError"]
    ELSE IF fk /\ (vehicle_id \notin Ids(d.vehicles)
                   \/ driver_id \notin Ids(d.drivers))
    THEN [db |-> d, outcome |-> "NotFound"]
    ELSE [db |-> [d EXCEPT !.trips = Append(@,
                    [id |-> NextId(d.trips), vehicle_id |-> vehicle_id,
                     driver_id |-> driver_id, cargo |-> cargo,
                     status |-> status])],
          outcome |-> "ok"]

(***************************************************************************)
(* insert.py, the seed script: three INSERTs, then one commit.             *)
(***************************************************************************)
SeedName == "Van-05"
SeedPlate == "MH12AB1234"
SeedCapacity == 500
SeedDriver == "Alex"
SeedLicence == "DL1234567"
SeedExpiry == "2026-12-31"
SeedVehicleId == 1
SeedDriverId == 1
SeedCargo == 450
SeedStatus == "dispatched"

\* insert.py opens its connection and never runs PRAGMA foreign_keys, and
\* SQLite's default for the pragma is OFF.
SeedForeignKeys == FALSE

\* A connection in autocommit mode: each statement's rows are committed
\* as soon as the statement ends.
AutoCommit(committed, pending) == pending

\* What a statement inside an open transaction leaves committed. Python's
\* sqlite3 opens a transaction before an INSERT and commits nothing until
\* conn.commit(): a script that ends before that line leaves the store as
\* it was (the open transaction is rolled back).
StatementCommit(committed, pending) == committed

(***************************************************************************)
(* app.py, the Flask routes.                                               *)
(***************************************************************************)
\* db.get_connection is imported by app.py and defined by no file of the
\* repository; app.py uses what it returns as a sqlite3 connection on which
\* it runs PRAGMA foreign_keys = ON. Modelled as a connection to the one
\* store every other program opens.
get_connection(d) == d

\* dashboard(): three SELECT COUNT(*) and a template; it writes nothing.
\* The third query names the status column, which only db.py's vehicles
\* table has.
dashboard(d) ==
    LET c == get_connection(d) IN
    IF c.vschema = "none" \/ ~c.dt \/ c.vschema = "final"
    THEN [db |-> c, outcome |-> "OperationalError", stats |-> <<0, 0, 0>>]
    ELSE [db |-> c, outcome |-> "ok",
          stats |-> <<Len(c.vehicles), Len(c.drivers),
                      Cardinality({i \in DOMAIN c.vehicles :
                                     c.vehicles[i].status = "maintenance"})>>]

\* add_vehicle() on POST: the three form fields go to the INSERT as they
\* are (request.form.get gives a str, or None for a missing field), then
\* commit. locked: another connection holds the write lock until the busy
\* timeout ends.
app_add_vehicle(d, locked, v_name, v_plate, v_capacity) ==
    IF locked
    THEN [db |-> d, outcome |-> "OperationalError"]
    ELSE InsertVehicleDb(get_connection(d), v_name, v_plate,
                         IF v_capacity = None THEN NullValue
                         ELSE TextValue(v_capacity))

(***************************************************************************)
(* Final.py, the Streamlit script. One run of the script per user event.   *)
(***************************************************************************)
ManagerEmail == "manager@fleetflow.com"
ManagerPassword == "admin123"
MinCapacity == 1

\* The login test with "or" for "and".
CredentialsEither(email, password) ==
    email = ManagerEmail \/ password = ManagerPassword

\* if email == "manager@fleetflow.com" and password == "admin123"
Credentials(email, password) ==
    email = ManagerEmail /\ password = ManagerPassword

\* st.number_input("Max Load Capacity (kg)", min_value=1, step=50): the
\* widget's value is an int that is never below min_value.
number_input(raw) == IF raw < MinCapacity THEN MinCapacity ELSE raw

\* add_vehicle(name, plate, capacity): INSERT, commit.
final_add_vehicle(d, locked, name, plate, capacity) ==
    IF locked
    THEN [db |-> d, outcome |-> "OperationalError"]
    ELSE InsertVehicleFinal(d, name, plate, IntegerValue(capacity))

\* A get_vehicles that empties the table it has read.
get_vehicles_clearing(d) ==
    [db |-> [d EXCEPT !.vehicles = <<>>], df |-> d.vehicles]

\* get_vehicles(): SELECT * FROM vehicles into a dataframe.
get_vehicles(d) == [db |-> d, df |-> d.vehicles]

\* The script's else branch (the main application). A click on Logout
\* clears the flag and reruns the script, which then shows the login
\* screen; otherwise the page the sidebar radio selects is rendered.
MainApplication(d, locked, ev) ==
    IF ev.button = "logout"
    THEN [logged_in |-> FALSE, db |-> d, page |-> "login",
          outcome |-> "logged_out", added |-> FALSE]
    ELSE IF ev.menu = "Dashboard"
    THEN LET g == get_vehicles(d) IN
         [logged_in |-> TRUE, db |-> g.db, page |-> "dashboard",
          outcome |-> IF g.df = <<>> \/ d.vschema = "final"
                      THEN "ok" ELSE "KeyError",
          added |-> FALSE]
    ELSE IF ev.menu = "Add Vehicle"
    THEN IF ev.button # "add"
         THEN [logged_in |-> TRUE, db |-> d, page |-> "add_vehicle",
               outcome |-> "form", added |-> FALSE]
         ELSE IF ev.name # "" /\ ev.plate # ""
         THEN LET r == final_add_vehicle(d, locked, ev.name, ev.plate,
                                         number_input(ev.capacity)) IN
              [logged_in |-> TRUE, db |-> r.db, page |-> "add_vehicle",
               outcome |-> r.outcome, added |-> TRUE]
         ELSE [logged_in |-> TRUE, db |-> d, page |-> "add_vehicle",
               outcome |-> "fill_in_all", added |-> FALSE]
    ELSE LET g == get_vehicles(d) IN
         [logged_in |-> TRUE, db |-> g.db, page |-> "fleet_status",
          outcome |-> "ok", added |-> FALSE]

\* One run of Final.py with session flag li and user event ev: init_db(),
\* then the login screen when the flag is False, else the main
\* application. A successful login sets the flag and reruns the script,
\* which renders the sidebar's first page with no button pressed.
FinalScript(li, d, locked, ev) ==
    LET d1 == init_db(d) IN
    IF ~li
    THEN IF ev.button = "login"
         THEN IF Credentials(ev.email, ev.password)
              THEN MainApplication(init_db(d1), locked,
                                   [ev EXCEPT !.button = "none",
                                              !.menu = "Dashboard"])
              ELSE [logged_in |-> FALSE, db |-> d1, page |-> "login",
                    outcome |-> "invalid_login", added |-> FALSE]
         ELSE [logged_in |-> FALSE, db |-> d1, page |-> "login",
               outcome |-> "form", added |-> FALSE]
    ELSE MainApplication(d1, locked, ev)

(***************************************************************************)
(* State.                                                                  *)
(*   db         the committed store                                        *)
(*   lock       the seed run holding SQLite's write lock, or "none"        *)
(*   work       the lock holder's view: the store with its pending rows    *)
(*   pc         where each run of insert.py stands                         *)
(*   begin      the committed store when a run's transaction began         *)
(*   logged_in  st.session_state['logged_in'] of the Streamlit session     *)
(*   last       the last operation: its name, its outcome, the page it     *)
(*              rendered, whether it called Final.py's add_vehicle, and    *)
(*              three facts about its input (the plate was already stored, *)
(*              the plate was empty or the capacity below 1, the           *)
(*              credentials were the manager's)                            *)
(***************************************************************************)
VARIABLES db, lock, work, pc, begin, logged_in, last

vars == <<db, lock, work, pc, begin, logged_in, last>>

\* Two runs of insert.py, which may overlap.
SeedRuns == {"run1", "run2"}

\* What the forms are filled with.
AppNames == {None, "Tata Ace"}
AppPlates == {"", "KA01", SeedPlate}
AppCapacities == {"0", "100", "abc"}
FinalNames == {"", "Tata Ace"}
FinalPlates == {"", "KA01", SeedPlate}
FinalCapacities == {0, 101}
Emails == {ManagerEmail, "driver@fleetflow.com"}
Passwords == {ManagerPassword, "letmein"}
Menus == {"Dashboard", "Add Vehicle", "Fleet Status"}

Event(button, menu) ==
    [button |-> button, menu |-> menu, email |-> "", password |-> "",
     name |-> "", plate |-> "", capacity |-> MinCapacity]

Last(op, outcome, page, added, dup, bad, creds) ==
    [op |-> op, outcome |-> outcome, page |-> page, added |-> added,
     dup |-> dup, bad |-> bad, creds |-> creds]

Did(op, outcome) == Last(op, outcome, "", FALSE, FALSE, FALSE, FALSE)

Init ==
    /\ db = EmptyDb
    /\ lock = "none"
    /\ work = EmptyDb
    /\ pc = [p \in SeedRuns |-> "idle"]
    /\ begin = [p \in SeedRuns |-> EmptyDb]
    /\ logged_in = FALSE
    /\ last = Did("start", "ok")

\* python db.py. While a seed run holds the write lock all three tables
\* exist, so the statements change nothing then.
RunDbPy ==
    /\ db' = CreateTables(db)
    /\ last' = Did("db.py", "ok")
    /\ UNCHANGED <<lock, work, pc, begin, logged_in>>

\* python insert.py: connect and take a cursor.
SeedStart(p) ==
    /\ pc[p] \in {"idle", "done", "failed"}
    /\ pc' = [pc EXCEPT ![p] = "vehicle"]
    /\ last' = Did("seed", "connected")
    /\ UNCHANGED <<db, lock, work, begin, logged_in>>

\* insert.py lines 6-9. The INSERT begins the transaction and takes the
\* write lock; when another run holds the lock the busy timeout ends in
\* "database is locked". An exception ends the script.
SeedInsertVehicle(p) ==
    /\ pc[p] = "vehicle"
    /\ LET r == IF lock # "none"
                THEN [db |-> db, outcome |-> "OperationalError"]
                ELSE InsertVehicleDb(db, SeedName, SeedPlate,
                                     IntegerValue(SeedCapacity))
       IN /\ Len(r.db.vehicles) <= MaxVehicles
          /\ IF r.outcome = "ok"
             THEN /\ lock' = p
                  /\ work' = r.db
                  /\ begin' = [begin EXCEPT ![p] = db]
                  /\ db' = StatementCommit(db, r.db)
                  /\ pc' = [pc EXCEPT ![p] = "driver"]
             ELSE /\ pc' = [pc EXCEPT ![p] = "failed"]
                  /\ UNCHANGED <<db, lock, work, begin>>
          /\ last' = Did("seed", r.outcome)
    /\ UNCHANGED logged_in

\* insert.py lines 11-14.
SeedInsertDriver(p) ==
    /\ pc[p] = "driver"
    /\ LET r == InsertDriver(work, SeedDriver, SeedLicence, SeedExpiry)
       IN /\ IF r.outcome = "ok"
             THEN /\ work' = r.db
                  /\ db' = StatementCommit(db, r.db)
                  /\ pc' = [pc EXCEPT ![p] = "trip"]
                  /\ UNCHANGED <<lock, begin>>
             ELSE /\ pc' = [pc EXCEPT ![p] = "failed"]
                  /\ lock' = "none"
                  /\ work' = EmptyDb
                  /\ begin' = [begin EXCEPT ![p] = EmptyDb]
                  /\ UNCHANGED db
          /\ last' = Did("seed", r.outcome)
    /\ UNCHANGED logged_in

\* insert.py lines 16-19.
SeedInsertTrip(p) ==
    /\ pc[p] = "trip"
    /\ LET r == InsertTrip(work, SeedForeignKeys, SeedVehicleId,
                           SeedDriverId, SeedCargo, SeedStatus)
       IN /\ IF r.outcome = "ok"
             THEN /\ work' = r.db
                  /\ db' = StatementCommit(db, r.db)
                  /\ pc' = [pc EXCEPT ![p] = "commit"]
                  /\ UNCHANGED <<lock, begin>>
             ELSE /\ pc' = [pc EXCEPT ![p] = "failed"]
                  /\ lock' = "none"
                  /\ work' = EmptyDb
                  /\ begin' = [begin EXCEPT ![p] = EmptyDb]
                  /\ UNCHANGED db
          /\ last' = Did("seed", r.outcome)
    /\ UNCHANGED logged_in

\* insert.py line 21: conn.commit().
SeedCommit(p) ==
    /\ pc[p] = "commit"
    /\ db' = work
    /\ lock' = "none"
    /\ work' = EmptyDb
    /\ begin' = [begin EXCEPT ![p] = EmptyDb]
    /\ pc' = [pc EXCEPT ![p] = "done"]
    /\ last' = Did("seed", "committed")
    /\ UNCHANGED logged_in

\* The script ends inside its transaction: an execute or the commit raises
\* (sqlite3.OperationalError: the store stays locked by a reader, the disk
\* is full) or the process is interrupted. insert.py catches nothing, so
\* line 21 is never reached and the pending rows are rolled back.
SeedAbort(p) ==
    /\ pc[p] \in {"driver", "trip", "commit"}
    /\ pc' = [pc EXCEPT ![p] = "failed"]
    /\ lock' = "none"
    /\ work' = EmptyDb
    /\ begin' = [begin EXCEPT ![p] = EmptyDb]
    /\ last' = Did("seed", "rolled_back")
    /\ UNCHANGED <<db, logged_in>>

\* GET /dashboard.
AppDashboard ==
    /\ LET r == dashboard(db)
       IN /\ db' = r.db
          /\ last' = Did("app_dashboard", r.outcome)
    /\ UNCHANGED <<lock, work, pc, begin, logged_in>>

\* POST /add_vehicle.
AppAddVehicle ==
    \E v_name \in AppNames, v_plate \in AppPlates,
       v_capacity \in AppCapacities :
        LET r == app_add_vehicle(db, lock # "none", v_name, v_plate,
                                 v_capacity)
            c == IntegerAffinity(TextValue(v_capacity))
        IN /\ Len(r.db.vehicles) <= MaxVehicles
           /\ db' = r.db
           /\ last' = Last("app_add_vehicle", r.outcome, "", FALSE,
                           v_plate \in Plates(db.vehicles),
                           v_plate = "" \/ (c.kind = "integer" /\ c.int < 1),
                           FALSE)
           /\ UNCHANGED <<lock, work, pc, begin, logged_in>>

\* The page is opened, or the sidebar radio is changed: one run of
\* Final.py.
FinalNavigate ==
    \E menu \in Menus :
        LET r == FinalScript(logged_in, db, lock # "none",
                             Event("none", menu))
        IN /\ db' = r.db
           /\ logged_in' = r.logged_in
           /\ last' = Last("final_navigate", r.outcome, r.page, r.added,
                           FALSE, FALSE, FALSE)
           /\ UNCHANGED <<lock, work, pc, begin>>

\* The login form is submitted: one run of Final.py.
FinalLogin ==
    \E email \in Emails, password \in Passwords :
        LET r == FinalScript(logged_in, db, lock # "none",
                             [Event("login", "Dashboard") EXCEPT
                                !.email = email, !.password = password])
        IN /\ db' = r.db
           /\ logged_in' = r.logged_in
           /\ last' = Last("final_login", r.outcome, r.page, r.added,
                           FALSE, FALSE,
                           email = ManagerEmail
                             /\ password = ManagerPassword)
           /\ UNCHANGED <<lock, work, pc, begin>>

\* The Logout button is clicked: one run of Final.py.
FinalLogout ==
    \E menu \in Menus :
        LET r == FinalScript(logged_in, db, lock # "none",
                             Event("logout", menu))
        IN /\ db' = r.db
           /\ logged_in' = r.logged_in
           /\ last' = Last("final_logout", r.outcome, r.page, r.added,
                           FALSE, FALSE, FALSE)
           /\ UNCHANGED <<lock, work, pc, begin>>

\* The Add Vehicle form is submitted: one run of Final.py.
FinalAddVehicle ==
    \E v_name \in FinalNames, v_plate \in FinalPlates,
       v_capacity \in FinalCapacities :
        LET r == FinalScript(logged_in, db, lock # "none",
                             [Event("add", "Add Vehicle") EXCEPT
                                !.name = v_name, !.plate = v_plate,
                                !.capacity = v_capacity])
        IN /\ Len(r.db.vehicles) <= MaxVehicles
           /\ db' = r.db
           /\ logged_in' = r.logged_in
           /\ last' = Last("final_add_vehicle", r.outcome, r.page, r.added,
                           v_plate \in Plates(db.vehicles),
                           v_plate = "" \/ number_input(v_capacity) < 1,
                           FALSE)
           /\ UNCHANGED <<lock, work, pc, begin>>

Next ==
    \/ RunDbPy
    \/ \E p \in SeedRuns : SeedStart(p)
    \/ \E p \in SeedRuns : SeedInsertVehicle(p)
    \/ \E p \in SeedRuns : SeedInsertDriver(p)
    \/ \E p \in SeedRuns : SeedInsertTrip(p)
    \/ \E p \in SeedRuns : SeedCommit(p)
    \/ \E p \in SeedRuns : SeedAbort(p)
    \/ AppDashboard
    \/ AppAddVehicle
    \/ FinalNavigate
    \/ FinalLogin
    \/ FinalLogout
    \/ FinalAddVehicle

Spec == Init /\ [][Next]_vars

(***************************************************************************)
(* Properties.                                                             *)
(***************************************************************************)
Active == {"assigned", "dispatched"}
Loaded == {"assigned", "dispatched", "completed"}
Registrations == {"app_add_vehicle", "final_add_vehicle"}
MainPages == {"dashboard", "add_vehicle", "fleet_status"}
InTransaction == {"driver", "trip", "commit"}

\* The last operation ran a vehicle INSERT for a registration form.
Registered(l) ==
    \/ l.op = "app_add_vehicle"
    \/ l.op = "final_add_vehicle" /\ l.added

\* SQLite's comparison of an integer with a stored value: an INTEGER
\* sorts before any TEXT.
LessEq(n, v) == v.kind = "text" \/ (v.kind = "integer" /\ n <= v.int)

\* The trip state machine of the specification.
Transition(from, to) ==
    \/ from = "draft" /\ to \in {"assigned", "cancelled"}
    \/ from = "assigned" /\ to \in {"dispatched", "cancelled"}
    \/ from = "dispatched" /\ to \in {"completed", "cancelled"}

\* C1: no two distinct trips of the same vehicle are both assigned or
\* dispatched, in the committed store and in a writer's pending view.
C1_NoDoubleBooking ==
    \A d \in {db, work} :
        \A i, j \in DOMAIN d.trips :
            (i # j /\ d.trips[i].vehicle_id = d.trips[j].vehicle_id)
                => ~(d.trips[i].status \in Active
                     /\ d.trips[j].status \in Active)

\* C1's case: a dispatched trip is stored and a later run of the seed
\* script was refused by the UNIQUE license plate.
C1_Witness ==
    /\ \E i \in DOMAIN db.trips : db.trips[i].status = "dispatched"
    /\ last.op = "seed"
    /\ last.outcome = "DuplicateKey"

\* C2: every assigned, dispatched or completed trip carries no more than
\* the max load of the vehicle row its vehicle_id names.
C2_CargoWithinCapacity ==
    \A i \in DOMAIN db.trips :
        db.trips[i].status \in Loaded
            => \E k \in DOMAIN db.vehicles :
                   /\ db.vehicles[k].id = db.trips[i].vehicle_id
                   /\ LessEq(db.trips[i].cargo, db.vehicles[k].cap)

\* C3: a registration whose plate is already stored does not succeed (it
\* ends with DuplicateKey, unless the statement was refused before the
\* UNIQUE check by a locked store, a missing column or a NULL field) and
\* leaves the vehicles table as it was, on app.py's and Final.py's path.
C3_DuplicatePlateRefused ==
    [][(Registered(last') /\ last'.dup)
          => (/\ last'.outcome \in {"DuplicateKey", "OperationalError",
                                    "NotNull"}
              /\ db'.vehicles = db.vehicles)]_vars

\* C4: a trip enters the store as a draft, and a stored trip's status
\* only moves along a transition of the state machine.
C4_TripLifecycle ==
    [][\A i \in DOMAIN db'.trips :
          IF i \in DOMAIN db.trips
          THEN \/ db'.trips[i].status = db.trips[i].status
               \/ Transition(db.trips[i].status, db'.trips[i].status)
          ELSE db'.trips[i].status = "draft"]_vars

\* C6: a run of the seed script that fails leaves the committed store as
\* it was when its transaction began, whichever statement it failed at,
\* and a vehicle registration that fails leaves the store unchanged.
C6_AllOrNothing ==
    [][/\ \A p \in SeedRuns :
            (pc[p] \in InTransaction \cup {"vehicle"} /\ pc'[p] = "failed")
                => db' = (IF pc[p] = "vehicle" THEN db ELSE begin[p])
       /\ (Registered(last') /\ last'.outcome # "ok")
            => db' = db]_vars

\* C6's case: a run of the seed script ended after some of its rows were
\* inserted and before its commit.
C6_Witness ==
    /\ last.op = "seed"
    /\ last.outcome = "rolled_back"
    /\ \E p \in SeedRuns : pc[p] = "failed"
    /\ db.vschema = "db"
    /\ db.drivers = <<>>

C8_ViewsReadOnly ==
    [][(\/ last'.op = "app_dashboard"
        \/ (last'.op = "final_navigate"
            /\ last'.page \in {"dashboard", "fleet_status"}))
          => (db' = db /\ work' = work /\ lock' = lock
              /\ logged_in' = logged_in)]_vars

\* C8's case: the Dashboard page was rendered over a fleet with vehicles.
C8_Witness ==
    /\ last.op = "final_navigate"
    /\ last.page = "dashboard"
    /\ last.outcome = "ok"
    /\ db.vehicles # <<>>

\* C9: every stored vehicle has a non-empty plate and an integer capacity
\* of at least 1, and a registration submitted with an empty plate or a
\* capacity below 1 stores nothing.
C9_VehiclesWellFormed ==
    /\ \A i \in DOMAIN db.vehicles :
           /\ db.vehicles[i].plate \notin {"", None}
           /\ db.vehicles[i].cap.kind = "integer"
           /\ db.vehicles[i].cap.int >= 1
    /\ (last.op \in Registrations /\ last.bad) => last.outcome # "ok"

\* C10: the session flag starts False; it turns True only in a run that
\* submits the manager's email and password, and turns False only on
\* Logout, which always leaves it False; a login with other credentials
\* leaves it False; add_vehicle is called, and a page of the main
\* application rendered, only with the flag True.
C10_LoginGate ==
    /\ ~logged_in
    /\ [][/\ (~logged_in /\ logged_in')
                => (last'.op = "final_login" /\ last'.creds)
          /\ (logged_in /\ ~logged_in') => last'.op = "final_logout"
          /\ last'.op = "final_logout" => ~logged_in'
          /\ (~logged_in /\ last'.op = "final_login" /\ ~last'.creds)
                => ~logged_in'
          /\ (last'.added \/ last'.page \in MainPages)
                => (logged_in' /\ (logged_in \/ last'.op = "final_login"))
         ]_vars

\* C10's case: a vehicle was added through Final.py by a session that
\* logged in.
C10_Witness ==
    /\ logged_in
    /\ last.op = "final_add_vehicle"
    /\ last.added
    /\ last.outcome = "ok"

====
